---- MODULE Spec2Model ----
(***************************************************************************)
(* Model of list-drive.py and list-photos.py: two command line scripts    *)
(* that list the items of a remote file store / photo library, page by    *)
(* page, with a bounded retry loop around each page fetch and (for the    *)
(* file store) a depth-first recursion guarded by a visited set.          *)
(*                                                                         *)
(* The remote service is the environment: the folder graph and its pages  *)
(* are chosen in Init, the HTTP status of every request is chosen by the  *)
(* action that makes the request.  The Python call stack of               *)
(* list_files_recursive / process_item is the variable `stack`.           *)
(***************************************************************************)
EXTENDS Integers, Sequences, FiniteSets, TLC

VARIABLES
    script,          \* which entry point runs
    httperror,       \* which HttpError class list-drive.py imports (line 9)
    args,            \* the parsed command line
    remote,          \* container id -> sequence of pages (each a sequence of items)
    pc,              \* "start", "running", "done", "exited", "crashed"
    exit_status,     \* process exit status, StillRunning before the process ends
    stack,           \* call stack, innermost frame last
    visited_folders, \* the set passed down list_files_recursive
    stdout,          \* lines printed to standard output
    stderr,          \* messages printed to standard error
    requests,        \* every HTTP request sent, in order
    slept,           \* seconds spent in time.sleep
    call,            \* the current (or last) fetch_with_retries call
    errors           \* number of error responses the remote has given

vars == <<script, httperror, args, remote, pc, exit_status, stack, visited_folders,
          stdout, stderr, requests, slept, call, errors>>

(***************************************************************************)
(* Bounds of the model.                                                    *)
(***************************************************************************)
MaxErrors == 5
MaxDepth == 5

(***************************************************************************)
(* Values.                                                                 *)
(***************************************************************************)
None == "None"
StillRunning == 0 - 1
FolderMime == "application/vnd.google-apps.folder"
FileMime == "text/plain"

OK == 200
TransientStatuses == {429, 500, 503}
OtherErrorStatuses == {403, 404}
Statuses == {OK} \cup TransientStatuses \cup OtherErrorStatuses

\* Python truthiness of an optional string: None and "" are false.
Truthy(x) == x \notin {None, ""}

Folder(id) == [id |-> id, mimeType |-> FolderMime]
File(id) == [id |-> id, mimeType |-> FileMime]

FolderIds == {"root", "A", "B"}

\* A cycle: A lists B as a child and B lists A.
DriveCycle ==
    [f \in FolderIds |->
        CASE f = "root" -> << <<Folder("A"), File("f1")>> >>
          [] f = "A"    -> << <<Folder("B"), File("f2")>> >>
          [] f = "B"    -> << <<Folder("A")>>, <<File("f3")>> >>]

\* B has two parents; every folder has two pages.
DriveDiamond ==
    [f \in FolderIds |->
        CASE f = "root" -> << <<Folder("A"), Folder("B")>>, <<File("f1")>> >>
          [] f = "A"    -> << <<Folder("B")>>, <<File("f2")>> >>
          [] f = "B"    -> << <<File("f3")>>, <<File("f4")>> >>]

\* Three pages, one of them empty; A lists itself; B is empty.
DrivePaged ==
    [f \in FolderIds |->
        CASE f = "root" -> << <<File("f1"), Folder("A")>>, <<>>, <<File("f2"), Folder("B")>> >>
          [] f = "A"    -> << <<Folder("A"), File("f3")>> >>
          [] f = "B"    -> << <<>> >>]

Drives == {DriveCycle, DriveDiamond, DrivePaged}

(***************************************************************************)
(* The remote list call: page tokens are opaque cursors; the page served  *)
(* is the one the token of the request names, the first page for None.    *)
(***************************************************************************)
PageTokens == <<"p2", "p3", "p4">>

TokenFor(i) == PageTokens[i - 1]

PageIndex(token) ==
    IF token = None THEN 1
    ELSE CHOOSE i \in 2..(Len(PageTokens) + 1) : TokenFor(i) = token

ServerList(pages, token) ==
    LET i == PageIndex(token) IN
    IF i > Len(pages)
    THEN [files |-> <<>>, nextPageToken |-> None]
    ELSE [files |-> pages[i],
          nextPageToken |-> IF i < Len(pages) THEN TokenFor(i + 1) ELSE None]

\* files().list(q="name='...' and mimeType=folder", pageSize=1)
FoldersNamed(name) ==
    IF name \in FolderIds THEN <<[id |-> name]>> ELSE <<>>

(***************************************************************************)
(* list-drive.py                                                           *)
(***************************************************************************)
retries == 5

IsTransientOrNotFound(status) == status \in {429, 500, 503, 404}

\* Line 64.
IsTransient(status) == status \in {429, 500, 503}

\* The HttpError class the script runs with.  The constructor of googleapiclient's
\* class takes (resp, content) ("strict"); a class whose constructor accepts a single
\* argument ("permissive") can be called the way line 71 calls it.
HttpErrorClasses == {"strict", "permissive"}

\* The exception line 71 constructs: a new HttpError carrying the text
\* "Retries exhausted." where the errors of execute() carry the HTTP response.
RetriesExhausted == "HttpError('Retries exhausted.')"

ExhaustedRaisesHttpError == "HttpError"

\* What line 71, raise HttpError("Retries exhausted."), raises: that HttpError when the
\* constructor accepts the one argument, the TypeError of the failed constructor call
\* when it needs two.
ExhaustedRaises == IF httperror = "permissive" THEN RetriesExhausted ELSE "TypeError"

\* What a bare `raise` in the except clause of line 63 re-raises: the HttpError that
\* execute() raised.
NonRetryableRaises == "HttpError"

CaughtByNothing(exc) == FALSE

\* except HttpError (lines 84 and 118) catches every instance of the class.
CaughtByExceptHttpError(exc) == exc \in {NonRetryableRaises, RetriesExhausted}

NeverVisited(folder_id) == FALSE

AlreadyVisited(folder_id) == folder_id \in visited_folders

ItemsReversed(results) ==
    [i \in 1..Len(results.files) |-> results.files[Len(results.files) + 1 - i]]

\* Line 111: results.get('files', []), iterated in the order returned.
ItemsInOrder(results) == results.files

ContinuationTokenDropped(results) == None

\* Line 115: results.get('nextPageToken').
ContinuationToken(results) == results.nextPageToken

LookupExitStatusZero == 1 - 1

\* Line 47: sys.exit(1).
LookupExitStatus == 1

MarkNothing(folder_id) == visited_folders

\* Line 99: visited_folders.add(folder_id).
MarkVisited(folder_id) == visited_folders \cup {folder_id}

Request(api, q, token, filters) ==
    [api |-> api, q |-> q, pageToken |-> token, filters |-> filters]

Log(msg, arg) == [msg |-> msg, arg |-> arg]

NewCall == [responses |-> <<>>, sleeps |-> 0, result |-> "pending"]

Frame(folder_id) ==
    [pc |-> "enter", folder_id |-> folder_id, next_page_token |-> None,
     items |-> <<>>, results_token |-> None, attempt |-> 0]

Top == stack[Len(stack)]

Rest == SubSeq(stack, 1, Len(stack) - 1)

ReplaceTop(frame) == Append(Rest, frame)

DriveHeaderAsProgress ==
    [kind |-> "progress", id |-> "Listing files starting from folder", parent |-> "-"]

\* Line 139: the column names, printed to standard output.
DriveHeader == [kind |-> "header", id |-> "ID", parent |-> "Parent Folder ID"]

DriveRecord(item, parent_id) == [kind |-> "item", id |-> item.id, parent |-> parent_id]

\* As if next_page_token were shared by all calls: the caller finds it None.
ReturnClobberingCaller ==
    /\ stack' = IF Len(stack) > 1
                THEN Append(SubSeq(stack, 1, Len(stack) - 2),
                            [stack[Len(stack) - 1] EXCEPT !.results_token = None])
                ELSE <<>>
    /\ IF Len(stack) = 1
       THEN pc' = "done" /\ exit_status' = 0
       ELSE UNCHANGED <<pc, exit_status>>

\* The innermost call returns; when it was the outermost one the script ends.
Return ==
    /\ stack' = Rest
    /\ IF Len(stack) = 1
       THEN pc' = "done" /\ exit_status' = 0
       ELSE UNCHANGED <<pc, exit_status>>

\* sys.exit(1), or an exception no handler catches.
Exit(status, state) ==
    /\ pc' = state
    /\ exit_status' = status
    /\ stack' = <<>>

\* An exception raised inside fetch_with_retries called from list_files_recursive:
\* the try of line 107 catches HttpError and the call returns; anything else
\* unwinds every frame (process_item catches HttpError only) and ends the run.
Raise(exc, logged) ==
    IF CaughtByExceptHttpError(exc)
    THEN /\ stderr' = stderr \o logged \o <<Log("Unrecoverable error listing folder ID", Top.folder_id)>>
         /\ Return
    ELSE /\ stderr' = stderr \o logged \o <<Log("Traceback", exc)>>
         /\ Exit(1, "crashed")

\* get_folder_id_by_name and the body of __main__.
DriveMain ==
    /\ script = "list-drive"
    /\ pc = "start"
    /\ \E status \in {OK} \cup OtherErrorStatuses :
        LET lookup == ~Truthy(args.id) /\ Truthy(args.name)
            found == FoldersNamed(args.name)
            folder_id == IF Truthy(args.id) THEN args.id
                         ELSE IF Truthy(args.name) THEN found[1].id
                         ELSE "root"
            note == IF Truthy(args.id) THEN Log("Using provided folder ID", args.id)
                    ELSE IF Truthy(args.name) THEN Log("Searching for folder", args.name)
                    ELSE Log("No folder ID or name provided", "root")
        IN
        /\ (status # OK) => (lookup /\ errors < MaxErrors)
        /\ requests' = IF lookup
                       THEN Append(requests, Request("files.list name", args.name, None, None))
                       ELSE requests
        /\ errors' = IF status # OK THEN errors + 1 ELSE errors
        /\ IF lookup /\ status # OK
           THEN /\ stderr' = stderr \o <<note, Log("An error occurred", "HttpError")>>
                /\ Exit(1, "exited")
                /\ UNCHANGED stdout
           ELSE IF lookup /\ found = <<>>
           THEN /\ stderr' = stderr \o <<note, Log("Folder not found", args.name)>>
                /\ Exit(LookupExitStatus, "exited")
                /\ UNCHANGED stdout
           ELSE /\ stdout' = Append(stdout, DriveHeader)
                /\ stderr' = stderr \o <<note, Log("Listing files starting from folder",
                                               IF Truthy(args.name) THEN args.name ELSE folder_id)>>
                /\ stack' = <<Frame(folder_id)>>
                /\ pc' = "running"
                /\ UNCHANGED exit_status
    /\ UNCHANGED <<script, httperror, args, remote, visited_folders, slept, call>>

\* list_files_recursive, lines 90-105: the cycle guard and the insertion.
ListFilesEnter ==
    /\ script = "list-drive"
    /\ pc = "running"
    /\ Top.pc = "enter"
    /\ IF AlreadyVisited(Top.folder_id)
       THEN /\ stderr' = Append(stderr, Log("Skipping already visited folder ID", Top.folder_id))
            /\ Return
            /\ UNCHANGED <<visited_folders, call>>
       ELSE /\ visited_folders' = MarkVisited(Top.folder_id)
            /\ stderr' = Append(stderr, Log("processing folder ID", Top.folder_id))
            /\ stack' = ReplaceTop([Top EXCEPT !.pc = "fetch", !.next_page_token = None,
                                               !.attempt = 0])
            /\ call' = NewCall
            /\ UNCHANGED <<pc, exit_status>>
    /\ UNCHANGED <<script, httperror, args, remote, stdout, requests, slept, errors>>

\* One iteration of the for loop of fetch_with_retries (lines 55-69).
DriveFetchAttempt ==
    /\ script = "list-drive"
    /\ pc = "running"
    /\ Top.pc = "fetch"
    /\ Top.attempt < retries
    /\ \E status \in Statuses :
        /\ (status # OK) => errors < MaxErrors
        /\ errors' = IF status # OK THEN errors + 1 ELSE errors
        /\ requests' = Append(requests,
                              Request("files.list children", Top.folder_id, Top.next_page_token, None))
        /\ IF status = OK
           THEN LET results == ServerList(remote[Top.folder_id], Top.next_page_token) IN
                /\ stack' = ReplaceTop([Top EXCEPT !.pc = "items", !.items = ItemsInOrder(results),
                                                   !.results_token = ContinuationToken(results)])
                /\ call' = [call EXCEPT !.responses = Append(@, status), !.result = "returned"]
                /\ UNCHANGED <<pc, exit_status, stderr, slept>>
           ELSE IF IsTransient(status)
           THEN /\ stderr' = Append(stderr, Log("Transient error", "Retrying in 1 second"))
                /\ slept' = slept + 1
                /\ stack' = ReplaceTop([Top EXCEPT !.attempt = @ + 1])
                /\ call' = [call EXCEPT !.responses = Append(@, status), !.sleeps = @ + 1]
                /\ UNCHANGED <<pc, exit_status>>
           ELSE /\ call' = [call EXCEPT !.responses = Append(@, status),
                                        !.result = NonRetryableRaises]
                /\ Raise(NonRetryableRaises, <<Log("Non-retryable error", "HttpError")>>)
                /\ UNCHANGED slept
    /\ UNCHANGED <<script, httperror, args, remote, visited_folders, stdout>>

\* The for loop ran out of attempts (lines 70-71).
DriveFetchExhausted ==
    /\ script = "list-drive"
    /\ pc = "running"
    /\ Top.pc = "fetch"
    /\ Top.attempt >= retries
    /\ call' = [call EXCEPT !.result = ExhaustedRaises]
    /\ Raise(ExhaustedRaises, <<Log("Max retries reached for a list call", "-")>>)
    /\ UNCHANGED <<script, httperror, args, remote, visited_folders, stdout, requests, slept, errors>>

\* One iteration of `for item in items` (line 112-113): process_item.
ProcessItem ==
    /\ script = "list-drive"
    /\ pc = "running"
    /\ Top.pc = "items"
    /\ Top.items # <<>>
    /\ LET item == Head(Top.items)
           parent == [Top EXCEPT !.items = Tail(@)]
       IN
       /\ stdout' = Append(stdout, DriveRecord(item, Top.folder_id))
       /\ IF item.mimeType = FolderMime
          THEN /\ Len(stack) < MaxDepth
               /\ stack' = Append(ReplaceTop(parent), Frame(item.id))
          ELSE stack' = ReplaceTop(parent)
    /\ UNCHANGED <<script, httperror, args, remote, pc, exit_status, visited_folders, stderr,
                   requests, slept, call, errors>>

\* After the for loop (lines 115-117): follow the continuation token or return.
PageDone ==
    /\ script = "list-drive"
    /\ pc = "running"
    /\ Top.pc = "items"
    /\ Top.items = <<>>
    /\ IF Truthy(Top.results_token)
       THEN /\ stack' = ReplaceTop([Top EXCEPT !.pc = "fetch",
                                               !.next_page_token = Top.results_token,
                                               !.attempt = 0])
            /\ call' = NewCall
            /\ UNCHANGED <<pc, exit_status>>
       ELSE /\ Return
            /\ UNCHANGED call
    /\ UNCHANGED <<script, httperror, args, remote, visited_folders, stdout, stderr, requests,
                   slept, errors>>

(***************************************************************************)
(* list-photos.py                                                          *)
(***************************************************************************)
Media(id) == [id |-> id, filename |-> id]

AlbumIds == {None, "a1", "a2"}

\* The library: the media items of the unfiltered search and of each album.
PhotoLibrary ==
    [a \in AlbumIds |->
        CASE a = None -> << <<Media("m1"), Media("m2")>>, <<Media("m3")>>, <<Media("m4")>> >>
          [] a = "a1" -> << <<Media("m1")>>, <<>>, <<Media("m3")>> >>
          [] a = "a2" -> << <<Media("m2"), Media("m4")>> >>]

\* The pages albums().list returns.
AlbumPages ==
    << <<[title |-> "alb1", id |-> "a1"]>>, <<[title |-> "alb2", id |-> "a2"]>> >>

photos_retries == 5

PhotosIsTransientOrNotFound(status_code) == status_code \in {429, 500, 503, 404}

\* Line 48.
PhotosIsTransient(status_code) == status_code \in {429, 500, 503}

\* What fetch_with_retries returns: a response with its status code, or None.
Response(status_code) == [is_none |-> FALSE, status_code |-> status_code]

NoResponse == [is_none |-> TRUE, status_code |-> 0]

\* `if not response`: requests.Response.__bool__ is Response.ok; None is false.
ResponseTruthy(response) == ~response.is_none /\ response.status_code < 400

\* strptime(args.date, "%Y-%m-%d") and the dateFilter built from it.
ParseDate(date) ==
    CASE date = "2024-01-15" -> [year |-> 2024, month |-> 1, day |-> 15]
      [] date = "2023-12-31" -> [year |-> 2023, month |-> 12, day |-> 31]

DateFilters(date) == IF Truthy(date) THEN ParseDate(date) ELSE None

\* Line 168: the right-hand side of the assignment is the local variable.
AssignedAlbumId(album_id, flag) == album_id

\* album_id_by_name from page i on: the id found and the pages requested.
RECURSIVE AlbumScan(_, _)
AlbumScan(name, i) ==
    LET result == ServerList(AlbumPages, IF i = 1 THEN None ELSE TokenFor(i))
        hits == SelectSeq(result.files, LAMBDA a : a.title = name)
    IN
    IF hits # <<>> THEN [id |-> hits[1].id, n |-> i]
    ELSE IF Truthy(result.nextPageToken) THEN AlbumScan(name, i + 1)
    ELSE [id |-> None, n |-> i]

AlbumRequests(n) ==
    [i \in 1..n |-> Request("albums.list", None, IF i = 1 THEN None ELSE TokenFor(i), None)]

PhotosHeader == [kind |-> "header", id |-> "id", filename |-> "filename"]

PhotosRecord(item) == [kind |-> "item", id |-> item.id, filename |-> item.filename]

PhotosRecords(items) == [i \in 1..Len(items) |-> PhotosRecord(items[i])]

\* __main__ of list-photos.py up to the first statement of the loop of search.
PhotosMain ==
    /\ script = "list-photos"
    /\ pc = "start"
    /\ \E fail_at \in 0..Len(AlbumPages) :
        LET flagged == IF Truthy(args.album_id)
                       THEN AssignedAlbumId(None, args.album_id)
                       ELSE None
            both == Truthy(args.album_name) /\ Truthy(flagged)
            lookup == Truthy(args.album_name) /\ ~Truthy(flagged)
            scan == AlbumScan(args.album_name, 1)
            album_id == IF lookup THEN scan.id ELSE flagged
            sent == IF ~lookup THEN 0 ELSE IF fail_at > 0 THEN fail_at ELSE scan.n
        IN
        /\ (fail_at > 0) => (lookup /\ fail_at <= scan.n /\ errors < MaxErrors)
        /\ errors' = IF fail_at > 0 THEN errors + 1 ELSE errors
        /\ requests' = requests \o AlbumRequests(sent)
        /\ IF both
           THEN /\ stderr' = Append(stderr, Log("Traceback", "Don't provide both album_id and album_name"))
                /\ Exit(1, "crashed")
                /\ UNCHANGED stdout
           ELSE IF fail_at > 0
           THEN /\ stderr' = Append(stderr, Log("Traceback", "HttpError"))
                /\ Exit(1, "crashed")
                /\ UNCHANGED stdout
           ELSE IF lookup /\ ~Truthy(album_id)
           THEN /\ stderr' = Append(stderr, Log("Traceback", "album_name not found"))
                /\ Exit(1, "crashed")
                /\ UNCHANGED stdout
           ELSE /\ stdout' = Append(stdout, PhotosHeader)
                /\ stack' = <<[Frame(album_id) EXCEPT !.pc = "search"]>>
                /\ pc' = "running"
                /\ UNCHANGED <<exit_status, stderr>>
    /\ UNCHANGED <<script, httperror, args, remote, visited_folders, slept, call>>

\* One iteration of the loop of search (lines 119-140); execute() is not retried
\* and its HttpError is not caught.
SearchPage ==
    /\ script = "list-photos"
    /\ pc = "running"
    /\ Top.pc = "search"
    /\ \E status \in {OK} \cup TransientStatuses \cup OtherErrorStatuses :
        /\ (status # OK) => errors < MaxErrors
        /\ errors' = IF status # OK THEN errors + 1 ELSE errors
        /\ requests' = Append(requests,
                              Request("mediaItems.search", Top.folder_id, Top.next_page_token,
                                      DateFilters(args.date)))
        /\ IF status = OK
           THEN LET result == ServerList(remote[Top.folder_id], Top.next_page_token) IN
                /\ stdout' = stdout \o PhotosRecords(result.files)
                /\ IF Truthy(result.nextPageToken)
                   THEN /\ stack' = ReplaceTop([Top EXCEPT !.next_page_token = result.nextPageToken])
                        /\ UNCHANGED <<pc, exit_status>>
                   ELSE Return
                /\ UNCHANGED stderr
           ELSE /\ stderr' = Append(stderr, Log("Traceback", "HttpError"))
                /\ Exit(1, "crashed")
                /\ UNCHANGED stdout
    /\ UNCHANGED <<script, httperror, args, remote, visited_folders, slept, call>>

GooglePhotosRecord(item) == [kind |-> "item", filename |-> item.filename]

GooglePhotosRecords(items) == [i \in 1..Len(items) |-> GooglePhotosRecord(items[i])]

\* list_google_photos, lines 59-61, and the first call of fetch_with_retries.
GooglePhotosEnter ==
    /\ script = "list_google_photos"
    /\ pc = "start"
    /\ stack' = <<[Frame(None) EXCEPT !.pc = "get"]>>
    /\ pc' = "running"
    /\ call' = NewCall
    /\ UNCHANGED <<script, httperror, args, remote, exit_status, visited_folders, stdout, stderr,
                   requests, slept, errors>>

\* What list_google_photos does with the value fetch_with_retries returns
\* (lines 67-92); `logged` is what fetch_with_retries printed before returning.
GooglePhotosHandle(response, logged) ==
    IF ~ResponseTruthy(response)
    THEN /\ stderr' = stderr \o logged \o <<Log("Failed to fetch data. Exiting.", "-")>>
         /\ Return
         /\ UNCHANGED stdout
    ELSE LET data == ServerList(remote[None], Top.next_page_token) IN
         IF data.files = <<>>
         THEN /\ stderr' = stderr \o logged \o <<Log("No media items found", "quitting")>>
              /\ Return
              /\ UNCHANGED stdout
         ELSE /\ stdout' = stdout \o GooglePhotosRecords(data.files)
              /\ stderr' = stderr \o logged
              /\ IF Truthy(data.nextPageToken)
                 THEN /\ stack' = ReplaceTop([Top EXCEPT !.next_page_token = data.nextPageToken,
                                                         !.attempt = 0])
                      /\ UNCHANGED <<pc, exit_status>>
                 ELSE Return

\* One iteration of the for loop of fetch_with_retries of list-photos.py
\* (lines 44-53), and the caller's handling of a returned response.
PhotosFetchAttempt ==
    /\ script = "list_google_photos"
    /\ pc = "running"
    /\ Top.pc = "get"
    /\ Top.attempt < photos_retries
    /\ \E status \in Statuses :
        LET started == IF call.result = "pending" THEN call ELSE NewCall IN
        /\ (status # OK) => errors < MaxErrors
        /\ errors' = IF status # OK THEN errors + 1 ELSE errors
        /\ requests' = Append(requests, Request("mediaItems.get", None, Top.next_page_token, None))
        /\ IF status = OK
           THEN /\ call' = [started EXCEPT !.responses = Append(@, status), !.result = "returned"]
                /\ GooglePhotosHandle(Response(status), <<>>)
                /\ UNCHANGED slept
           ELSE IF PhotosIsTransient(status)
           THEN /\ stderr' = Append(stderr, Log("Transient error", "Retrying in 1 second"))
                /\ slept' = slept + 1
                /\ stack' = ReplaceTop([Top EXCEPT !.attempt = @ + 1])
                /\ call' = [started EXCEPT !.responses = Append(@, status), !.sleeps = @ + 1]
                /\ UNCHANGED <<pc, exit_status, stdout>>
           ELSE /\ call' = [started EXCEPT !.responses = Append(@, status),
                                           !.result = "returned error response"]
                /\ GooglePhotosHandle(Response(status), <<Log("Non-retryable error", "-")>>)
                /\ UNCHANGED slept
    /\ UNCHANGED <<script, httperror, args, remote, visited_folders>>

\* The for loop ran out of attempts (lines 54-55): None is returned.
PhotosFetchExhausted ==
    /\ script = "list_google_photos"
    /\ pc = "running"
    /\ Top.pc = "get"
    /\ Top.attempt >= photos_retries
    /\ call' = [call EXCEPT !.result = "returned None"]
    /\ GooglePhotosHandle(NoResponse, <<Log("Max retries reached. Exiting.", "-")>>)
    /\ UNCHANGED <<script, httperror, args, remote, visited_folders, requests, slept, errors>>

(***************************************************************************)
(* Specification.                                                          *)
(***************************************************************************)
DriveArgs == [id : {None, "A"}, name : {None, "B", "nomatch"}]

PhotosArgs == [album_id : {None, "a1"}, album_name : {None, "alb2", "nomatch"},
               date : {None, "2024-01-15"}]

NoArgs == [creds |-> "token"]

Init ==
    /\ \/ /\ script = "list-drive" /\ args \in DriveArgs /\ remote \in Drives
          /\ httperror \in HttpErrorClasses
       \/ /\ script = "list-photos" /\ args \in PhotosArgs /\ remote = PhotoLibrary
          /\ httperror = "strict"
       \/ /\ script = "list_google_photos" /\ args = NoArgs /\ remote = PhotoLibrary
          /\ httperror = "strict"
    /\ pc = "start"
    /\ exit_status = StillRunning
    /\ stack = <<>>
    /\ visited_folders = {}
    /\ stdout = <<>>
    /\ stderr = <<>>
    /\ requests = <<>>
    /\ slept = 0
    /\ call = NewCall
    /\ errors = 0

Next ==
    \/ DriveMain
    \/ ListFilesEnter
    \/ DriveFetchAttempt
    \/ DriveFetchExhausted
    \/ ProcessItem
    \/ PageDone
    \/ PhotosMain
    \/ SearchPage
    \/ GooglePhotosEnter
    \/ PhotosFetchAttempt
    \/ PhotosFetchExhausted

Spec == Init /\ [][Next]_vars

\* The interpreter runs the script to its end: some step is taken while one is possible.
FairSpec == Spec /\ WF_vars(Next)

(***************************************************************************)
(* Operators used to state the properties.                                 *)
(***************************************************************************)
Terminal == {"done", "exited", "crashed"}

Ids(items) == [i \in 1..Len(items) |-> items[i].id]

RECURSIVE Flatten(_)
Flatten(pages) == IF pages = <<>> THEN <<>> ELSE Head(pages) \o Flatten(Tail(pages))

IsPrefix(s, t) == Len(s) <= Len(t) /\ SubSeq(t, 1, Len(s)) = s

\* s without the repetitions of an element that directly follow it.
RECURSIVE Collapse(_)
Collapse(s) ==
    IF Len(s) <= 1 THEN s
    ELSE IF s[1] = s[2] THEN Collapse(Tail(s))
    ELSE <<s[1]>> \o Collapse(Tail(s))

Count(s, e) == Cardinality({i \in 1..Len(s) : s[i] = e})

Logged(msg) == \E i \in 1..Len(stderr) : stderr[i].msg = msg

LoggedFor(msg, arg) == \E i \in 1..Len(stderr) : stderr[i] = Log(msg, arg)

\* The page tokens of the requests of one kind sent for one container.
TokensSent(api, q) ==
    LET sent == SelectSeq(requests, LAMBDA r : r.api = api /\ r.q = q)
    IN [i \in 1..Len(sent) |-> sent[i].pageToken]

\* The ids of the records printed under one parent folder.
EmittedUnder(folder_id) ==
    Ids(SelectSeq(stdout, LAMBDA l : l.kind = "item" /\ l.parent = folder_id))

\* The frames of folder_id that are past the cycle guard.
Listing(folder_id) ==
    {i \in 1..Len(stack) : stack[i].folder_id = folder_id /\ stack[i].pc \in {"fetch", "items"}}

AllTransient(responses) ==
    \A i \in 1..Len(responses) : responses[i] \in {429, 500, 503}

\* C1: no folder is expanded more than once in a run of list-drive (at most one
\* "processing folder ID" per folder, at most one frame listing it), and a call of
\* list_files_recursive on a folder already in visited_folders returns without
\* sending a request.
C1_ExpandedOnce ==
    \A f \in FolderIds :
        /\ Count(stderr, Log("processing folder ID", f)) <= 1
        /\ Cardinality(Listing(f)) <= 1
        /\ (Listing(f) # {} \/ Count(stderr, Log("processing folder ID", f)) = 1)
               => f \in visited_folders

C1_NoFolderExpandedTwice ==
    [][ /\ C1_ExpandedOnce'
        /\ (script = "list-drive" /\ pc = "running" /\ Top.pc = "enter"
                /\ Top.folder_id \in visited_folders)
            => (requests' = requests /\ stack' = Rest /\ visited_folders' = visited_folders)
      ]_vars

\* C1 witness: a folder was reached a second time (a cycle or a second parent),
\* was skipped, and the run ended.
C1_Witness ==
    /\ pc = "done"
    /\ \E f \in FolderIds :
        /\ LoggedFor("Skipping already visited folder ID", f)
        /\ LoggedFor("processing folder ID", f)

\* C2 (as claimed): once a page fetch has exhausted its retries ("Max retries
\* reached" is logged) the run goes on: it has not died, and what was printed stays.
\* It fails with the HttpError class of googleapiclient, which line 71 cannot
\* construct from one argument.
C2_ExhaustionAbortsOnlyTheFolder ==
    (script = "list-drive" /\ Logged("Max retries reached for a list call"))
        => pc \in {"running", "done"}

\* C3: in list-drive a fetch_with_retries call whose 5 attempts all got 429, 500 or
\* 503 ends by raising, after exactly 5 identical requests, an exception that is not
\* the one a non-retryable status raises (it is the HttpError built at line 71 from
\* the text "Retries exhausted.", or the TypeError of building it, never the error of
\* execute() re-raised); no frame is listing that folder any more and nothing that
\* ends a call otherwise ends it this way.
C3_ExhaustionRaisesTerminalError ==
    (script = "list-drive" /\ call.result # "pending") =>
        LET n == Len(requests)
            exhausted == Len(call.responses) = 5 /\ AllTransient(call.responses)
        IN
        /\ exhausted <=> call.result \notin {"returned", NonRetryableRaises}
        /\ exhausted =>
            /\ call.result # NonRetryableRaises
            /\ n >= 5
            /\ \A i \in (n - 4)..n : requests[i] = requests[n]
            /\ requests[n].api = "files.list children"
            /\ Listing(requests[n].q) = {}
            /\ Logged("Max retries reached for a list call")

\* C3 witness: five transient responses in one call, and the call has raised.
C3_Witness ==
    /\ script = "list-drive"
    /\ Len(call.responses) = 5
    /\ AllTransient(call.responses)
    /\ call.result \notin {"pending", "returned", NonRetryableRaises}

\* C4: in both scripts one fetch_with_retries call sends at most 5 requests, every
\* response but the last one of a call is 429, 500 or 503, a 200 ends the call with a
\* successful return, and the call has slept one second per transient response; so
\* four transient responses and a 200 are 5 requests and 4 sleeps.
C4_BoundedRetries ==
    LET n == Len(call.responses)
        transient == {i \in 1..n : call.responses[i] \in {429, 500, 503}}
    IN
    /\ n <= 5
    /\ \A i \in 1..(n - 1) : call.responses[i] \in {429, 500, 503}
    /\ (n > 0 /\ call.responses[n] = 200) <=> call.result = "returned"
    /\ call.sleeps = Cardinality(transient)
    /\ slept = Count(stderr, Log("Transient error", "Retrying in 1 second"))
    /\ (call.result = "returned" /\ call.sleeps = 4) => n = 5

\* C4 witness: 429 four times, then 200: the call has returned.
C4_Witness ==
    /\ call.responses = <<429, 429, 429, 429, 200>>
    /\ call.result = "returned"
    /\ call.sleeps = 4

\* The tokens of a page sequence of n pages: None, then the token each page returns.
TokenChain(n) == [i \in 1..n |-> IF i = 1 THEN None ELSE TokenFor(i)]

\* Every page of folder_id was requested and returned: the requests reached the last
\* token of the chain, no fetch of the folder was ended by a caught error, and the
\* last request sent, when it is one of this folder, was answered with a 200.
PagesAllReturned(folder_id) ==
    /\ Collapse(TokensSent("files.list children", folder_id)) = TokenChain(Len(remote[folder_id]))
    /\ ~LoggedFor("Unrecoverable error listing folder ID", folder_id)
    /\ (requests[Len(requests)] = Request("files.list children", folder_id,
                                          requests[Len(requests)].pageToken, None))
           => call.result = "returned"

\* The pagination of one folder of list-drive: the records printed under it are a
\* prefix of the items of its pages, in page order and in-page order, and the tokens
\* of its requests (repeated for retries) follow the chain None, token of page 1,
\* token of page 2, ... and never go past the last page.
DrivePagesInOrder(folder_id) ==
    /\ IsPrefix(EmittedUnder(folder_id), Ids(Flatten(remote[folder_id])))
    /\ IsPrefix(Collapse(TokensSent("files.list children", folder_id)),
                TokenChain(Len(remote[folder_id])))

\* The pagination of search of list-photos: the records after the header are a prefix
\* of the items of the pages, every request carries the token the page before it
\* returned, and when search has returned every item of every page was printed once.
SearchPagesInOrder ==
    LET searches == SelectSeq(requests, LAMBDA r : r.api = "mediaItems.search")
        album == searches[1].q
        tokens == [i \in 1..Len(searches) |-> searches[i].pageToken]
    IN
    /\ searches = <<>> => Len(stdout) = 1
    /\ searches # <<>> =>
        /\ \A i \in 1..Len(searches) : searches[i].q = album
        /\ IsPrefix(Ids(Tail(stdout)), Ids(Flatten(remote[album])))
        /\ IsPrefix(tokens, TokenChain(Len(remote[album])))
        /\ pc = "done" =>
            /\ Ids(Tail(stdout)) = Ids(Flatten(remote[album]))
            /\ tokens = TokenChain(Len(remote[album]))

\* C5 (as claimed): for a folder whose pages were all returned by successful fetches,
\* once its listing is over every item of every page has been printed exactly once,
\* in page order and in-page order, each request after the first carried the token of
\* the page before it and none followed the last page; the same for search.
C5_PaginationEmitsEveryItemOnce ==
    /\ script = "list-drive" =>
        \A f \in FolderIds :
            /\ DrivePagesInOrder(f)
            /\ (PagesAllReturned(f) /\ Listing(f) = {}) =>
                   EmittedUnder(f) = Ids(Flatten(remote[f]))
    /\ (script = "list-photos" /\ Len(stdout) > 0) => SearchPagesInOrder

\* What does hold of the code: the same statement for the runs that no uncaught
\* exception has ended (the only exception that escapes list_files_recursive is the
\* TypeError of an exhausted fetch_with_retries call).
PaginationCompleteUnlessCrashed ==
    /\ script = "list-drive" =>
        \A f \in FolderIds :
            /\ DrivePagesInOrder(f)
            /\ (PagesAllReturned(f) /\ Listing(f) = {} /\ pc # "crashed") =>
                   EmittedUnder(f) = Ids(Flatten(remote[f]))
    /\ (script = "list-photos" /\ Len(stdout) > 0) => SearchPagesInOrder

\* C6 (as claimed): the id given with -i is the id the run is scoped to: list-drive
\* lists the children of that folder first, list-photos searches with that albumId.
C6_IdFlagScopesTheRun ==
    /\ (script = "list-drive" /\ Truthy(args.id)) =>
        \A i \in 1..Len(requests) :
            (requests[i].api = "files.list children"
                /\ \A j \in 1..(i - 1) : requests[j].api # "files.list children")
            => requests[i].q = args.id
    /\ (script = "list-photos" /\ Truthy(args.album_id)) =>
        \A i \in 1..Len(requests) :
            requests[i].api = "mediaItems.search" => requests[i].q = args.album_id

\* C7: every run ends (the script returns, exits or dies of an exception), on every
\* folder graph of the model, the cyclic ones included.
C7_TraversalTerminates == <>(pc \in Terminal)

\* C7 witness: a run over the graph where A lists B and B lists A has ended, both
\* folders expanded.
C7_Witness ==
    /\ script = "list-drive"
    /\ remote = DriveCycle
    /\ pc = "done"
    /\ {"A", "B"} \subseteq visited_folders
    /\ LoggedFor("Skipping already visited folder ID", "A")

\* C8: in list-drive an error status other than 429, 500 and 503 ends the call at
\* once with the re-raised HttpError: it is the last response of its call, the call is
\* over, and the call slept only for the transient responses before it; when it is the
\* first response the call made exactly one request and never slept.
C8_NonRetryableRaisesImmediately ==
    script = "list-drive" =>
        LET n == Len(call.responses) IN
        /\ \A i \in 1..n :
            call.responses[i] \notin {200, 429, 500, 503} =>
                /\ i = n
                /\ call.result = "HttpError"
                /\ call.sleeps = n - 1
                /\ requests[Len(requests)].api = "files.list children"
                /\ Listing(requests[Len(requests)].q) = {}
        /\ call.result = "HttpError" => (n >= 1 /\ call.responses[n] \notin {200, 429, 500, 503})

\* C8 witness: the first response of a call is 404 and the call has raised.
C8_Witness ==
    /\ script = "list-drive"
    /\ call.responses = <<404>>
    /\ call.result = "HttpError"
    /\ call.sleeps = 0

\* A folder whose listing was ended by a caught fetch error is not being listed.
AbortedListingsAreGone ==
    \A f \in FolderIds :
        LoggedFor("Unrecoverable error listing folder ID", f) => Listing(f) = {}

\* C9: the step in which a page fetch of folder F gets a non-retryable status sends
\* that one request, removes the frame of F and nothing else (the caller's frame, with
\* its remaining items and its page token, is as it was), prints nothing to and
\* removes nothing from standard output and does not end the run unless F was the
\* starting folder; afterwards F is not listed again.
C9_NonRetryableAbortsOnlyTheListing ==
    [][ /\ (script = "list-drive" /\ call.result = "pending" /\ call'.result = "HttpError") =>
            /\ stack' = Rest
            /\ stdout' = stdout
            /\ Len(requests') = Len(requests) + 1
            /\ stderr'[Len(stderr')] = Log("Unrecoverable error listing folder ID", Top.folder_id)
            /\ IF Len(stack) > 1 THEN pc' = "running" ELSE pc' = "done" /\ exit_status' = 0
        /\ (script = "list-drive") => AbortedListingsAreGone'
      ]_vars

\* C9 witness: the listing of A was aborted by a non-retryable error and the run went
\* on to print the item that follows A under root.
C9_Witness ==
    /\ script = "list-drive"
    /\ remote = DriveCycle
    /\ call.result = "HttpError"
    /\ LoggedFor("Unrecoverable error listing folder ID", "A")
    /\ EmittedUnder("root") = <<"A", "f1">>
    /\ EmittedUnder("A") = <<>>
    /\ pc = "done"

\* C10: when the name looked up matches nothing, the run ends with a non-zero exit
\* status, has sent no children-listing and no search request and has printed
\* nothing, header included, to standard output.
C10_NameNotFoundExits ==
    LET missed == \/ script = "list-drive" /\ ~Truthy(args.id) /\ args.name = "nomatch"
                  \/ script = "list-photos" /\ args.album_name = "nomatch"
    IN
    (missed /\ pc # "start") =>
        /\ pc \in {"exited", "crashed"}
        /\ exit_status # 0
        /\ stdout = <<>>
        /\ stack = <<>>
        /\ \A i \in 1..Len(requests) :
            requests[i].api \notin {"files.list children", "mediaItems.search"}

\* C10 witness: list-drive -n nomatch has looked the name up, found nothing and exited.
C10_Witness ==
    /\ script = "list-drive"
    /\ args.name = "nomatch"
    /\ pc = "exited"
    /\ LoggedFor("Folder not found", "nomatch")
    /\ Len(requests) = 1


\* C11 (as claimed): every backoff sleep of a fetch_with_retries call is followed by
\* another request of the same call: a call that is over has slept fewer times than it
\* sent requests, so a call that used its 5 attempts has slept 4 times.
C11_SleepsOnlyBetweenAttempts ==
    call.result # "pending" =>
        /\ call.sleeps < Len(call.responses)
        /\ call.sleeps <= 4

\* The folder a list-drive run started at: the one its first listing request names.
StartFolder ==
    LET listings == SelectSeq(requests, LAMBDA r : r.api = "files.list children")
    IN listings[1].q

\* C12 (as claimed): an error raised while process_item handles an item (it can only
\* come from the recursive listing of a subfolder) is caught in process_item and skips
\* that item only: no run of list-drive dies of an exception raised while a subfolder
\* is being handled.
C12_ItemErrorSkipsOnlyTheItem ==
    (script = "list-drive" /\ pc = "crashed") =>
        requests[Len(requests)].q = StartFolder


\* The run got as far as list_files_recursive or search.
ReachedListing ==
    \/ pc \in {"running", "done"}
    \/ \E i \in 1..Len(requests) :
           requests[i].api \in {"files.list children", "mediaItems.search"}

\* C13: in every run of list-drive or list-photos that reaches the traversal or the
\* search, the first line of standard output is the header row, every other line is
\* an item record (so the header is printed once and no diagnostic or progress text
\* is on standard output), and every message the run printed besides went to
\* standard error: the run has logged there how it started and every fetch failure.
C13_HeaderFirstAndOnce ==
    (script \in {"list-drive", "list-photos"} /\ ReachedListing) =>
        /\ Len(stdout) >= 1
        /\ stdout[1].kind = "header"
        /\ stdout[1].id = IF script = "list-drive" THEN "ID" ELSE "id"
        /\ \A i \in 2..Len(stdout) : stdout[i].kind = "item"
        /\ script = "list-drive" =>
            /\ Logged("Listing files starting from folder")
            /\ Count(stderr, Log("Transient error", "Retrying in 1 second")) = slept
            /\ \A f \in FolderIds :
                   f \in visited_folders <=> LoggedFor("processing folder ID", f)

\* C13 witness: a list-drive run has ended after printing the header and five records
\* and after logging progress and a retried fetch to standard error.
C13_Witness ==
    /\ script = "list-drive"
    /\ pc = "done"
    /\ stdout[1].kind = "header"
    /\ Len(stdout) = 6
    /\ slept > 0
    /\ Logged("processing folder ID")


\* Depth-first pre-order listing of a folder graph, as a function: the records of the
\* items of `folder` in the order the remote returns them, the records of the subtree
\* of a subfolder right after the subfolder's own record, a folder listed only the
\* first time it is met.  The result is the records and the folders listed.
RECURSIVE PreOrder(_, _, _)
RECURSIVE PreOrderItems(_, _, _, _)
PreOrder(graph, folder, listed) ==
    PreOrderItems(graph, Flatten(graph[folder]), folder,
                  [out |-> <<>>, listed |-> listed \cup {folder}])

PreOrderItems(graph, items, parent, acc) ==
    IF items = <<>> THEN acc
    ELSE LET item == Head(items)
             own == [out |-> Append(acc.out, [kind |-> "item", id |-> item.id, parent |-> parent]),
                     listed |-> acc.listed]
             below == IF item.mimeType = FolderMime /\ item.id \notin acc.listed
                      THEN LET sub == PreOrder(graph, item.id, acc.listed)
                           IN [out |-> own.out \o sub.out, listed |-> sub.listed]
                      ELSE own
         IN PreOrderItems(graph, Tail(items), parent, below)

\* The positions of the records printed under one parent folder.
PositionsUnder(folder_id) ==
    {i \in 2..Len(stdout) : stdout[i].parent = folder_id}

Max(S) == CHOOSE x \in S : \A y \in S : y <= x

\* C14: emission is depth-first pre-order.  In every run of list-drive: a record under
\* a folder other than the starting one comes after that folder's own record; while a
\* subfolder is being listed its record is the last one printed under its parent and
\* nothing has been printed since under any folder that is waiting for it, so its
\* whole subtree comes before its next sibling; and the children of a folder come in
\* the order the remote returns them (C5's prefix).  When no fetch fails standard
\* output is, line for line, a prefix of the header followed by the pre-order listing
\* of the graph, and all of it when the run has ended.
C14_DepthFirstPreOrder ==
    (script = "list-drive" /\ Len(stdout) > 0 /\ pc # "exited") =>
        /\ \A f \in FolderIds : IsPrefix(EmittedUnder(f), Ids(Flatten(remote[f])))
        /\ \A j \in 2..Len(stdout) :
               (requests # <<>> /\ stdout[j].parent # StartFolder) =>
                   \E i \in 2..(j - 1) : stdout[i].id = stdout[j].parent
        /\ \A k \in 1..(Len(stack) - 1) :
               /\ PositionsUnder(stack[k].folder_id) # {}
               /\ LET last == Max(PositionsUnder(stack[k].folder_id)) IN
                  /\ stdout[last].id = stack[k + 1].folder_id
                  /\ \A j \in (last + 1)..Len(stdout) :
                         \A m \in 1..k : stdout[j].parent # stack[m].folder_id
        /\ (errors = 0 /\ Len(stack) > 0) =>
               IsPrefix(Tail(stdout), PreOrder(remote, stack[1].folder_id, {}).out)
        /\ (errors = 0 /\ pc = "done") =>
               Tail(stdout) = PreOrder(remote, StartFolder, {}).out

\* C14 witness: the run over the two-parent graph has ended without a fetch failure:
\* B's subtree (f3, f4) was printed under A's record of B, before A's f2, and not again
\* under root's record of B.
C14_Witness ==
    /\ script = "list-drive"
    /\ remote = DriveDiamond
    /\ errors = 0
    /\ pc = "done"
    /\ Ids(Tail(stdout)) = <<"A", "B", "f3", "f4", "f2", "B", "f1">>


\* The folders a folder lists as children.
Subfolders(graph, folder) ==
    LET items == Flatten(graph[folder])
    IN {items[i].id : i \in {j \in 1..Len(items) : items[j].mimeType = FolderMime}}

\* The folders reachable from a set of folders along the child relation.
RECURSIVE ReachableFrom(_, _)
ReachableFrom(graph, S) ==
    LET next == S \cup UNION {Subfolders(graph, f) : f \in S}
    IN IF next = S THEN S ELSE ReachableFrom(graph, next)

\* Every id the graph holds.
AllIds(graph) ==
    FolderIds \cup UNION {{Flatten(graph[f])[i].id : i \in 1..Len(Flatten(graph[f]))} : f \in FolderIds}

\* C15: when no request of a list-drive run failed and the run has ended, the folders
\* expanded are exactly the folders reachable from the starting folder, and for every
\* folder p and every id x the records (x under p) printed are as many as the times
\* p's pages hold x when p is reachable and none otherwise: an item is printed once
\* under each reachable parent, and the starting folder only as somebody's child.
C15_ExactlyTheReachablePairs ==
    (script = "list-drive" /\ errors = 0 /\ pc = "done") =>
        LET reachable == ReachableFrom(remote, {StartFolder}) IN
        /\ visited_folders = reachable
        /\ \A p \in FolderIds : \A x \in AllIds(remote) :
               Count(Tail(stdout), [kind |-> "item", id |-> x, parent |-> p])
                   = IF p \in reachable THEN Count(Ids(Flatten(remote[p])), x) ELSE 0
        /\ \A i \in 2..Len(stdout) : stdout[i].parent \in FolderIds /\ stdout[i].id \in AllIds(remote)

\* C15 witness: list-drive -i A on the cyclic graph has ended without a failure: root
\* is not reachable and has no record, the starting folder A has one, as B's child.
C15_Witness ==
    /\ script = "list-drive"
    /\ remote = DriveCycle
    /\ args.id = "A"
    /\ errors = 0
    /\ pc = "done"
    /\ visited_folders = {"A", "B"}
    /\ Count(Ids(Tail(stdout)), "A") = 1
    /\ EmittedUnder("root") = <<>>


\* The listing request a step sends, as a set: empty when the step sends none.
ListingRequestSent ==
    IF Len(requests') = Len(requests) + 1
          /\ requests'[Len(requests')].api = "files.list children"
    THEN {requests'[Len(requests')].q}
    ELSE {}

\* C16: in list-drive no step removes a folder from visited_folders; every listing
\* request names a folder that was inserted before the step that sends it; and once
\* the listing of a folder was aborted by a fetch error no later step sends a request
\* for it or lists it, also when the traversal reaches it again through another
\* parent (it is still in visited_folders and is skipped).
C16_VisitedOnlyGrows ==
    [][ script = "list-drive" =>
          /\ visited_folders \subseteq visited_folders'
          /\ ListingRequestSent \subseteq visited_folders
          /\ \A f \in FolderIds :
                 LoggedFor("Unrecoverable error listing folder ID", f) =>
                     /\ f \in visited_folders'
                     /\ f \notin ListingRequestSent
                     /\ Listing(f)' = {}
      ]_vars

\* C16 witness: on the two-parent graph the listing of B, entered from A, was aborted
\* by a fetch error; B was then reached again from root and skipped, and the run ended.
C16_Witness ==
    /\ script = "list-drive"
    /\ remote = DriveDiamond
    /\ pc = "done"
    /\ LoggedFor("Unrecoverable error listing folder ID", "B")
    /\ LoggedFor("Skipping already visited folder ID", "B")
    /\ EmittedUnder("root") = <<"A", "B", "f1">>
    /\ EmittedUnder("B") = <<>>


\* C17: in list-drive the locals of a waiting call of list_files_recursive (its page
\* token, the token its page returned, its remaining items) are changed by no step of
\* the calls it is waiting for: recursing into a subfolder only takes the subfolder's
\* item off the caller's page and puts a new call on top, and a call that returns,
\* normally or through its own except clause, leaves its caller as it was.  So when a
\* run has ended, every folder listed in it whose own fetches did not fail has had
\* all its pages requested and all their items printed.
C17_RecursionKeepsParentPagination ==
    [][ (script = "list-drive" /\ pc' # "crashed") =>
          /\ \A i \in 1..(Len(stack) - 1) : i <= Len(stack') => stack'[i] = stack[i]
          /\ Len(stack') = Len(stack) + 1 =>
                 /\ Len(stack) >= 1 =>
                        stack'[Len(stack)] = [Top EXCEPT !.items = Tail(Top.items)]
                 /\ stack'[Len(stack')] = Frame(stack'[Len(stack')].folder_id)
          /\ Len(stack') < Len(stack) => stack' = Rest
          /\ pc' = "done" =>
                 \A f \in visited_folders' :
                     ~LoggedFor("Unrecoverable error listing folder ID", f)' =>
                         /\ EmittedUnder(f)' = Ids(Flatten(remote[f]))
                         /\ Collapse(TokensSent("files.list children", f))'
                                = TokenChain(Len(remote[f]))
      ]_vars

\* C17 witness: on the two-parent graph the sub-listing of A was aborted and that of B
\* returned normally, both entered from root's first page; root then requested its
\* second page and printed f1.
C17_Witness ==
    /\ script = "list-drive"
    /\ remote = DriveDiamond
    /\ pc = "done"
    /\ LoggedFor("Unrecoverable error listing folder ID", "A")
    /\ EmittedUnder("B") = <<"f3", "f4">>
    /\ EmittedUnder("root") = <<"A", "B", "f1">>
    /\ TokensSent("files.list children", "root") = <<None, "p2">>


\* The records list_google_photos prints for the first n pages of the library.
GooglePhotosPagesPrinted(n) ==
    LET items == Flatten(SubSeq(remote[None], 1, n))
    IN [i \in 1..Len(items) |-> [kind |-> "item", filename |-> items[i].filename]]

\* C18: in list-photos no HTTP status makes fetch_with_retries raise: the run never
\* dies.  A call ends in one of three ways: with the response, on the 200 that is its
\* last response; with the error response, on a status other than 200, 429, 500 and
\* 503, which is its last response too and is not slept on (a single request when it
\* is the first response); with None, after exactly 5 requests that all got transient
\* statuses.  After the error response or None list_google_photos has ended: it
\* logged the failure, the requests of the failed call were the last ones sent, and
\* standard output holds the records of the pages fetched before it and nothing more.
C18_PhotosFetchNeverRaises ==
    script = "list_google_photos" =>
        LET n == Len(call.responses)
            failed == {"returned error response", "returned None"}
        IN
        /\ pc # "crashed"
        /\ ~Logged("Traceback")
        /\ n <= 5
        /\ call.result \in {"pending", "returned"} \cup failed
        /\ call.result = "returned" <=> (n >= 1 /\ call.responses[n] = 200)
        /\ call.result = "returned error response" <=>
               (n >= 1 /\ call.responses[n] \notin {200, 429, 500, 503})
        /\ call.result = "returned error response" =>
               /\ call.sleeps = n - 1
               /\ AllTransient(SubSeq(call.responses, 1, n - 1))
        /\ call.result = "returned None" => (n = 5 /\ AllTransient(call.responses))
        /\ (n = 5 /\ AllTransient(call.responses)) => call.result \in {"pending", "returned None"}
        /\ call.result \in failed =>
               /\ pc = "done"
               /\ stack = <<>>
               /\ stderr[Len(stderr)] = Log("Failed to fetch data. Exiting.", "-")
               /\ \A i \in (Len(requests) - n + 1)..Len(requests) :
                      requests[i] = requests[Len(requests)]
               /\ stdout = GooglePhotosPagesPrinted(PageIndex(requests[Len(requests)].pageToken) - 1)

\* C18 witness: the first page was fetched and printed, the five requests for the
\* second page all got transient statuses, None was returned and the function ended.
C18_Witness ==
    /\ script = "list_google_photos"
    /\ call.result = "returned None"
    /\ Len(requests) = 6
    /\ Len(stdout) = 2
    /\ pc = "done"


\* With an HttpError class that line 71 can construct, the exhaustion of the retries on
\* folder A is caught at line 118: the listing of A is abandoned, the item that follows
\* A under root is printed and the run ends with status 0.
ExhaustionCaughtWhenConstructible ==
    /\ script = "list-drive"
    /\ httperror = "permissive"
    /\ remote = DriveCycle
    /\ call.responses = <<503, 503, 503, 503, 503>>
    /\ call.result = RetriesExhausted
    /\ LoggedFor("Unrecoverable error listing folder ID", "A")
    /\ EmittedUnder("root") = <<"A", "f1">>
    /\ pc = "done"
    /\ exit_status = 0

\* An exception ends the run only when line 71 fails to construct its HttpError.
CrashOnlyFromFailedConstructor ==
    (script = "list-drive" /\ pc = "crashed") =>
        (httperror = "strict" /\ call.result = "TypeError")

====
